---- MODULE Spec2Model ----
(***************************************************************************)
(* Model of lib/oauth.js (co-weibo-oauth): the AccessToken validity test,  *)
(* the default in-memory token store, the request execution point and the  *)
(* public operations of the OAuth client, run by concurrent callers on one *)
(* Node.js event loop.                                                     *)
(*                                                                         *)
(* One step of a call is one turn of the event loop: the code of the call  *)
(* runs from the point where it was resumed (its start, or the answer to   *)
(* its request) up to the next request it hands to the HTTP transport, or  *)
(* to its end.  With the default store getToken and saveToken do no I/O,   *)
(* so the only suspension points of a call are its requests.               *)
(***************************************************************************)
EXTENDS Integers, Sequences, FiniteSets, TLC

\* ------------------------------------------------------------------ bounds
\* the clock is observed at the milliseconds around each whole second up to MaxSec
MaxSec == 1
\* number of access tokens the provider mints
MaxMint == 2
\* number of calls the callers start
MaxCalls == 2

\* ------------------------------------------------------------ value domains
Procs == {"p1", "p2"}
\* the caller of the specification in which the client serves one call at a time
Main == "p1"
Uids == {"u1", "u2"}
Codes == {"c1", "c2"}
\* the value of a property that is not there (JavaScript undefined)
undefined == "undefined"
\* the provider's expires_in, in seconds
ExpiresIn == {0, 1}
Times == {t \in UNION {{1000 * k - 1, 1000 * k, 1000 * k + 1} : k \in 0..MaxSec} : t >= 0}
TransportErrors == {"ResponseTimeoutError"}
HttpStatus == {200, 400}

\* property access on a JavaScript object: a missing property reads undefined
Get(obj, f) == IF f \in DOMAIN obj THEN obj[f] ELSE undefined
\* JavaScript truthiness of a string-or-undefined value (the !! of isValid)
Truthy(v) == v # "" /\ v # undefined

\* ------------------------------------------------------------- AccessToken
\* arithmetic on a property that is not there gives NaN, and every comparison
\* with NaN is false
Expiry(data) == data.create_at + data.expires_in * 1000
HasExpiry(data) == {"create_at", "expires_in"} \subseteq DOMAIN data

isValid_LateBoundary(data, t) ==
  Truthy(Get(data, "access_token")) /\ HasExpiry(data) /\ t <= Expiry(data)

\* AccessToken.prototype.isValid, with t the value of new Date().getTime()
isValid(data, t) ==
  Truthy(Get(data, "access_token")) /\ HasExpiry(data) /\ t < Expiry(data)

\* ------------------------------------------------------ default token store
\* the store before any save: no key holds a token
Absent == [absent |-> TRUE]
StoreKeys == Uids \cup {undefined}
EmptyStore == [k \in StoreKeys |-> Absent]

\* default getToken: self.store[uid]
getToken(st, uid) == st[uid]

saveToken_KeepFirst(st, uid, token) ==
  IF st[uid] = Absent THEN [st EXCEPT ![uid] = token] ELSE st

\* default saveToken: self.store[uid] = token
saveToken_AllKeys(st, uid, token) == [k \in DOMAIN st |-> token]

saveToken(st, uid, token) == [st EXCEPT ![uid] = token]

\* ----------------------------------------------------------------- provider
\* the user a code was granted by, and the refresh token of a user
CodeUser(code) == IF code = "c1" THEN "u1" ELSE "u2"
RefreshOf(uid) == "rt_" \o uid
RefreshTokens == {RefreshOf(u) : u \in Uids}
RefreshUser(rt) == CHOOSE u \in Uids : RefreshOf(u) = rt
\* the n-th access token the provider mints
TokenName(n) == "at" \o ToString(n)
AccessTokens == {TokenName(n) : n \in 1..MaxMint}
\* the opaque profile payload of users/show.json
Profile(uid) == [idstr |-> uid]
ErrorBody == [error |-> "bad", error_code |-> 21327, error_description |-> "expired"]

\* answers the provider can give to a request, given the owners of the tokens
\* it has minted so far (issued[n] owns TokenName(n))
TransportFailures == {[kind |-> "throw", name |-> n] : n \in TransportErrors}
ErrorAnswers == {[kind |-> "body", status |-> s, data |-> ErrorBody] : s \in HttpStatus}
Ok(data) == [kind |-> "body", status |-> 200, data |-> data]

\* a token body: the minted access token (or, from a faulty provider, an empty one)
MintedBodies(issued, uid, rt) ==
  {[access_token |-> TokenName(Len(issued) + 1), expires_in |-> e, uid |-> uid,
    refresh_token |-> rt] : e \in ExpiresIn}
  \cup {[access_token |-> "", expires_in |-> 1, uid |-> uid, refresh_token |-> rt]}

\* the refresh answer as the comment of refreshAccessToken documents it
BareBodies(issued) ==
  {[access_token |-> TokenName(Len(issued) + 1), expires_in |-> e] : e \in ExpiresIn}

SuccessAnswers(req, issued) ==
  LET info == req.args.data IN
  IF req.url = "https://api.weibo.com/oauth2/access_token"
  THEN IF Len(issued) >= MaxMint THEN {}
       ELSE IF info.grant_type = "authorization_code"
       THEN {Ok(b) : b \in MintedBodies(issued, CodeUser(info.code), RefreshOf(CodeUser(info.code)))}
       ELSE IF info.refresh_token \in RefreshTokens
       THEN {Ok(b) : b \in MintedBodies(issued, RefreshUser(info.refresh_token), info.refresh_token)
                           \cup BareBodies(issued)}
       ELSE {}
  ELSE IF req.url = "https://api.weibo.com/oauth2/get_token_info"
  THEN {Ok([uid |-> issued[n], appkey |-> "client_id", scope |-> "users_show",
            create_at |-> 0, expire_in |-> 1]) :
          n \in {m \in 1..Len(issued) : TokenName(m) = info.access_token}}
  ELSE {Ok(Profile(info.uid))}

Answers(req, issued) == TransportFailures \cup ErrorAnswers \cup SuccessAnswers(req, issued)

\* the provider's record of minted tokens after it gave the answer
IssuedAfter(req, issued, resp) ==
  IF /\ resp.kind = "body"
     /\ req.url = "https://api.weibo.com/oauth2/access_token"
     /\ Get(resp.data, "access_token") = TokenName(Len(issued) + 1)
  THEN Append(issued, IF req.args.data.grant_type = "authorization_code"
                      THEN CodeUser(req.args.data.code)
                      ELSE RefreshUser(req.args.data.refresh_token))
  ELSE issued

\* ----------------------------------------------------------------- requests
\* the credentials given to the constructor
clientId == "client_id"
clientSecret == "client_secret"
redirectUri == "redirect_uri"

\* the method urllib uses for a request whose options name none
Method(req) == IF "method" \in DOMAIN req.args THEN req.args.method ELSE "GET"

\* the request of getAccessToken (url and args handed to this.request)
TokenRequest(code) ==
  [url |-> "https://api.weibo.com/oauth2/access_token",
   args |-> [method |-> "POST",
             data |-> [client_id |-> clientId, client_secret |-> clientSecret, code |-> code,
                       grant_type |-> "authorization_code", redirect_uri |-> redirectUri],
             dataType |-> "json"]]

\* the request of refreshAccessToken
RefreshRequest(refreshToken) ==
  [url |-> "https://api.weibo.com/oauth2/access_token",
   args |-> [data |-> [client_id |-> clientId, client_secret |-> clientSecret,
                       grant_type |-> "refresh_token", redirect_uri |-> redirectUri,
                       refresh_token |-> refreshToken],
             dataType |-> "json"]]

\* the request of getTokenInfo
TokenInfoRequest(accessToken) ==
  [url |-> "https://api.weibo.com/oauth2/get_token_info",
   args |-> [data |-> [access_token |-> accessToken], dataType |-> "json"]]

UserRequest_OptionsToken(options, accessToken) ==
  [url |-> "https://api.weibo.com/2/users/show.json",
   args |-> [data |-> [access_token |-> IF Truthy(Get(options, "access_token"))
                                        THEN options.access_token ELSE accessToken,
                       uid |-> options.uid,
                       lang |-> IF Truthy(Get(options, "lang")) THEN options.lang ELSE "en"],
             dataType |-> "json"]]

\* the request of _getUser
UserRequest(options, accessToken) ==
  [url |-> "https://api.weibo.com/2/users/show.json",
   args |-> [data |-> [access_token |-> accessToken,
                       uid |-> options.uid,
                       lang |-> IF Truthy(Get(options, "lang")) THEN options.lang ELSE "en"],
             dataType |-> "json"]]

\* -------------------------------------------------------------------- calls
\* what the callers pass: getUser takes a bare uid or an options object
GetUserArgs ==
  UNION {{[bare |-> u], [uid |-> u, access_token |-> "at_opt", lang |-> "zh_CN"]} : u \in Uids}

Invocations ==
  {[op |-> "getAccessToken", args |-> [code |-> c]] : c \in Codes}
  \cup {[op |-> "refreshAccessToken", args |-> [refreshToken |-> r]] : r \in RefreshTokens}
  \cup {[op |-> "getTokenInfo", args |-> [accessToken |-> a]] : a \in AccessTokens}
  \cup {[op |-> "getUser", args |-> [options |-> o]] : o \in GetUserArgs}
  \cup {[op |-> "getUser2", args |-> [uid |-> u, accessToken |-> a]] : u \in Uids, a \in AccessTokens}
  \cup {[op |-> "getUserByAccessToken", args |-> [accessToken |-> a]] : a \in AccessTokens}
  \cup {[op |-> "getUserByCode", args |-> [code |-> c]] : c \in Codes}

\* a caller that has no call running and no result to look at; a call keeps
\* what it did so far, and what the store held when it started
IdleCall ==
  [op |-> "none", args |-> Absent, pc |-> "idle", options |-> Absent, token |-> Absent,
   before |-> Absent,
   loads |-> <<>>, checks |-> <<>>, reqs |-> <<>>, resps |-> <<>>, saves |-> <<>>,
   result |-> [status |-> "none"]]

NewCall(inv) == [IdleCall EXCEPT !.op = inv.op, !.args = inv.args, !.pc = "running"]

\* the call hands a request to the transport and suspends at pos
Issue(c, req, pos) == [c EXCEPT !.pc = pos, !.reqs = Append(@, req)]
\* the call ends
Return(c, value) == [c EXCEPT !.pc = "done", !.result = [status |-> "returned", value |-> value]]
Throw(c, error) == [c EXCEPT !.pc = "done", !.result = [status |-> "threw", error |-> error]]

Last(seq) == seq[Len(seq)]

\* ------------------------------------------------------- request execution
request_StatusOnly(resp) ==
  IF resp.kind = "throw"
  THEN [threw |-> [name |-> "WeiboAPI" \o resp.name]]
  ELSE IF resp.status >= 400 /\ Truthy(Get(resp.data, "error"))
  THEN [threw |-> [name |-> "WeiboAPIError",
                   message |-> Get(resp.data, "error_description"),
                   code |-> Get(resp.data, "error_code")]]
  ELSE [data |-> resp.data]

request_Untagged(resp) ==
  IF resp.kind = "throw"
  THEN [threw |-> [name |-> resp.name]]
  ELSE IF Truthy(Get(resp.data, "error"))
  THEN [threw |-> [name |-> "WeiboAPIError",
                   message |-> Get(resp.data, "error_description"),
                   code |-> Get(resp.data, "error_code")]]
  ELSE [data |-> resp.data]

\* OAuth.prototype.request from the answer of urllib on: the transport's
\* exception renamed and thrown again, the provider's error body thrown as
\* WeiboAPIError, or the decoded body
request(resp) ==
  IF resp.kind = "throw"
  THEN [threw |-> [name |-> "WeiboAPI" \o resp.name]]
  ELSE IF Truthy(Get(resp.data, "error"))
  THEN [threw |-> [name |-> "WeiboAPIError",
                   message |-> Get(resp.data, "error_description"),
                   code |-> Get(resp.data, "error_code")]]
  ELSE [data |-> resp.data]

\* ------------------------------------------------------------- operations
\* Each operation maps the call record c, the store st and the clock t to the
\* call record and the store at the end of the turn.

processToken_NoSave(c, st, data, t) ==
  [call |-> [c EXCEPT !.token = ("create_at" :> t) @@ data], store |-> st]

\* OAuth.prototype.processToken: stamp create_at, save under data.uid, wrap
processToken(c, st, data, t) ==
  LET token == ("create_at" :> t) @@ data
      uid == Get(token, "uid")
  IN [call |-> [c EXCEPT !.token = token,
                         !.saves = Append(@, [uid |-> uid, token |-> token])],
      store |-> saveToken(st, uid, token)]

\* OAuth.prototype._getUser
_getUser(c, options, accessToken) == Issue(c, UserRequest(options, accessToken), "user")

getUser_NoHardStop(c, st, arg, t) ==
  LET options == IF "bare" \in DOMAIN arg THEN [uid |-> arg.bare] ELSE arg
      data == getToken(st, options.uid)
      c1 == [c EXCEPT !.options = options,
                      !.loads = Append(@, [uid |-> options.uid, data |-> data])]
  IN IF data = Absent
     THEN Issue(c1, RefreshRequest(undefined), "refresh")
     ELSE LET valid == isValid(data, t)
              c2 == [c1 EXCEPT !.checks = Append(@, [data |-> data, at |-> t, valid |-> valid])]
          IN IF valid
             THEN _getUser(c2, options, data.access_token)
             ELSE Issue(c2, RefreshRequest(Get(data, "refresh_token")), "refresh")

\* OAuth.prototype.getUser up to its first request: normalise the argument,
\* load the token, stop without one, test it, fetch or refresh
getUser(c, st, arg, t) ==
  LET options == IF "bare" \in DOMAIN arg THEN [uid |-> arg.bare] ELSE arg
      data == getToken(st, options.uid)
      c1 == [c EXCEPT !.options = options,
                      !.loads = Append(@, [uid |-> options.uid, data |-> data])]
  IN IF data = Absent
     THEN Throw(c1, [name |-> "NoOAuthTokenError",
                     message |-> "No token for " \o options.uid \o ", please authorize first."])
     ELSE LET valid == isValid(data, t)
              c2 == [c1 EXCEPT !.checks = Append(@, [data |-> data, at |-> t, valid |-> valid])]
          IN IF valid
             THEN _getUser(c2, options, data.access_token)
             ELSE Issue(c2, RefreshRequest(Get(data, "refresh_token")), "refresh")

getUserRefreshed_OldToken(c, st, data, t) ==
  LET r == processToken(c, st, data, t)
  IN [call |-> _getUser(r.call, c.options, Get(Last(c.checks).data, "access_token")),
      store |-> r.store]

\* OAuth.prototype.getUser from the answer of its refresh on
getUserRefreshed(c, st, data, t) ==
  LET r == processToken(c, st, data, t)
  IN [call |-> _getUser(r.call, c.options, Get(r.call.token, "access_token")),
      store |-> r.store]

\* OAuth.prototype.getAccessToken: the request, and from its answer on
getAccessToken(c, code) == Issue(c, TokenRequest(code), "mint")
getAccessTokenAnswered_Chained(c, st, data, t) ==
  LET r == processToken(c, st, data, t)
  IN [call |-> _getUser(r.call, [uid |-> Get(data, "uid")], Get(data, "access_token")),
      store |-> r.store]

getAccessTokenAnswered(c, st, data, t) ==
  LET r == processToken(c, st, data, t)
  IN [call |-> Return(r.call, r.call.token), store |-> r.store]

\* OAuth.prototype.refreshAccessToken: the request, and from its answer on
refreshAccessToken(c, refreshToken) == Issue(c, RefreshRequest(refreshToken), "refresh")
refreshAccessTokenAnswered(c, st, data, t) ==
  LET r == processToken(c, st, data, t)
  IN [call |-> Return(r.call, r.call.token), store |-> r.store]

\* OAuth.prototype.getTokenInfo
getTokenInfo(c, accessToken) == Issue(c, TokenInfoRequest(accessToken), "info")

getUser2_OptionsToken(c, uid, accessToken) ==
  LET options == [uid |-> uid]
  IN _getUser([c EXCEPT !.options = options], options, Get(options, "access_token"))

\* OAuth.prototype.getUser2
getUser2(c, uid, accessToken) ==
  LET options == [uid |-> uid]
  IN _getUser([c EXCEPT !.options = options], options, accessToken)

getUserByAccessTokenAnswered_SuppliedToken(c, st, tokenInfo, t) ==
  LET options == [uid |-> Get(tokenInfo, "uid")]
  IN [call |-> _getUser([c EXCEPT !.options = options], options, c.args.accessToken),
      store |-> st]

\* OAuth.prototype.getUserByAccessToken from the answer of getTokenInfo on
getUserByAccessTokenAnswered(c, st, tokenInfo, t) ==
  [call |-> getUser(c, st, [bare |-> Get(tokenInfo, "uid")], t), store |-> st]

getUserByCodeAnswered_StaleStore(c, st, data, t) ==
  LET r == processToken(c, st, data, t)
  IN [call |-> getUser(r.call, st, [bare |-> Get(r.call.token, "uid")], t),
      store |-> r.store]

\* OAuth.prototype.getUserByCode from the answer of getAccessToken on
getUserByCodeAnswered(c, st, data, t) ==
  LET r == processToken(c, st, data, t)
  IN [call |-> getUser(r.call, r.store, [bare |-> Get(r.call.token, "uid")], t),
      store |-> r.store]

\* the turn that starts a call
Start(inv, st, t) ==
  LET c == [NewCall(inv) EXCEPT !.before = st]
  IN CASE inv.op = "getAccessToken" -> getAccessToken(c, inv.args.code)
       [] inv.op = "refreshAccessToken" -> refreshAccessToken(c, inv.args.refreshToken)
       [] inv.op = "getTokenInfo" -> getTokenInfo(c, inv.args.accessToken)
       [] inv.op = "getUser" -> getUser(c, st, inv.args.options, t)
       [] inv.op = "getUser2" -> getUser2(c, inv.args.uid, inv.args.accessToken)
       [] inv.op = "getUserByAccessToken" -> getTokenInfo(c, inv.args.accessToken)
       [] inv.op = "getUserByCode" -> getAccessToken(c, inv.args.code)

Resume_Rollback(c, st, resp, t) ==
  LET c1 == [c EXCEPT !.resps = Append(@, resp)]
      out == request(resp)
  IN IF "threw" \in DOMAIN out
     THEN [call |-> Throw(c1, out.threw), store |-> c.before]
     ELSE CASE c.pc = "mint" /\ c.op = "getAccessToken" -> getAccessTokenAnswered(c1, st, out.data, t)
            [] c.pc = "mint" /\ c.op = "getUserByCode" -> getUserByCodeAnswered(c1, st, out.data, t)
            [] c.pc = "refresh" /\ c.op = "refreshAccessToken" ->
                 refreshAccessTokenAnswered(c1, st, out.data, t)
            [] c.pc = "refresh" /\ c.op # "refreshAccessToken" -> getUserRefreshed(c1, st, out.data, t)
            [] c.pc = "info" /\ c.op = "getTokenInfo" -> [call |-> Return(c1, out.data), store |-> st]
            [] c.pc = "info" /\ c.op = "getUserByAccessToken" ->
                 getUserByAccessTokenAnswered(c1, st, out.data, t)
            [] c.pc = "user" -> [call |-> Return(c1, out.data), store |-> st]

\* the turn that resumes a call with the answer to its request
Resume(c, st, resp, t) ==
  LET c1 == [c EXCEPT !.resps = Append(@, resp)]
      out == request(resp)
  IN IF "threw" \in DOMAIN out
     THEN [call |-> Throw(c1, out.threw), store |-> st]
     ELSE CASE c.pc = "mint" /\ c.op = "getAccessToken" -> getAccessTokenAnswered(c1, st, out.data, t)
            [] c.pc = "mint" /\ c.op = "getUserByCode" -> getUserByCodeAnswered(c1, st, out.data, t)
            [] c.pc = "refresh" /\ c.op = "refreshAccessToken" ->
                 refreshAccessTokenAnswered(c1, st, out.data, t)
            [] c.pc = "refresh" /\ c.op # "refreshAccessToken" -> getUserRefreshed(c1, st, out.data, t)
            [] c.pc = "info" /\ c.op = "getTokenInfo" -> [call |-> Return(c1, out.data), store |-> st]
            [] c.pc = "info" /\ c.op = "getUserByAccessToken" ->
                 getUserByAccessTokenAnswered(c1, st, out.data, t)
            [] c.pc = "user" -> [call |-> Return(c1, out.data), store |-> st]

\* -------------------------------------------------------------------- state
VARIABLES
  store,    \* this.store of the one OAuth client
  calls,    \* per caller: its call, where it is suspended, what it did so far
  now,      \* new Date().getTime()
  issued,   \* provider: the owner of each access token minted so far
  started,  \* number of calls started
  lastSave, \* per key, the token of the latest saveToken call for it
  wire,     \* per caller: the provider's answer on its way back, if any
  defaults  \* this.defaults of the client

vars == <<store, calls, now, issued, started, lastSave, wire, defaults>>

Init ==
  /\ store = EmptyStore
  /\ calls = [p \in Procs |-> IdleCall]
  /\ now = 0
  /\ issued = <<>>
  /\ started = 0
  /\ lastSave = [k \in StoreKeys |-> Absent]
  /\ wire = [p \in Procs |-> Absent]
  /\ defaults = <<>>

\* the latest token per key after the saveToken calls of one turn, in order
RECURSIVE Recorded(_, _)
Recorded(last, saves) ==
  IF saves = <<>> THEN last
  ELSE Recorded([last EXCEPT ![saves[1].uid] = saves[1].token], Tail(saves))

\* a caller starts an operation of the client
Invoke(p, inv) ==
  /\ calls[p].pc \in {"idle", "done"}
  /\ started < MaxCalls
  /\ calls' = [calls EXCEPT ![p] = Start(inv, store, now)]
  /\ started' = started + 1
  /\ UNCHANGED <<store, now, issued, lastSave, wire, defaults>>

CallGetAccessToken(p) == \E inv \in Invocations : inv.op = "getAccessToken" /\ Invoke(p, inv)
CallRefreshAccessToken(p) == \E inv \in Invocations : inv.op = "refreshAccessToken" /\ Invoke(p, inv)
CallGetTokenInfo(p) == \E inv \in Invocations : inv.op = "getTokenInfo" /\ Invoke(p, inv)
CallGetUser(p) == \E inv \in Invocations : inv.op = "getUser" /\ Invoke(p, inv)
CallGetUser2(p) == \E inv \in Invocations : inv.op = "getUser2" /\ Invoke(p, inv)
CallGetUserByAccessToken(p) ==
  \E inv \in Invocations : inv.op = "getUserByAccessToken" /\ Invoke(p, inv)
CallGetUserByCode(p) == \E inv \in Invocations : inv.op = "getUserByCode" /\ Invoke(p, inv)

\* the transport delivers the provider's answer (or its own failure) to the
\* request a call is suspended on
Answer(p) ==
  /\ calls[p].pc \in {"mint", "refresh", "info", "user"}
  /\ \E resp \in Answers(Last(calls[p].reqs), issued) :
       LET r == Resume(calls[p], store, resp, now)
       IN /\ calls' = [calls EXCEPT ![p] = r.call]
          /\ store' = r.store
          /\ issued' = IssuedAfter(Last(calls[p].reqs), issued, resp)
          /\ lastSave' = Recorded(lastSave, SubSeq(r.call.saves, Len(calls[p].saves) + 1,
                                                  Len(r.call.saves)))
  /\ UNCHANGED <<now, started, wire, defaults>>

\* time passes
Tick ==
  /\ \E t \in Times : t > now /\ now' = t
  /\ UNCHANGED <<store, calls, issued, started, lastSave, wire, defaults>>

\* the client used by one caller, one call at a time
Next ==
  \/ CallGetAccessToken(Main)
  \/ CallRefreshAccessToken(Main)
  \/ CallGetTokenInfo(Main)
  \/ CallGetUser(Main)
  \/ CallGetUser2(Main)
  \/ CallGetUserByAccessToken(Main)
  \/ CallGetUserByCode(Main)
  \/ Answer(Main)
  \/ Tick

Spec == Init /\ [][Next]_vars

\* ---------------------------------------------------------- authorize URLs
\* A string that goes into a URL is a sequence of characters; a run of
\* unreserved characters (letters, digits, - _ .) may stand as one element.
\* An argument that was not passed is [given |-> FALSE].
NotGiven == [given |-> FALSE]
Given(chars) == [given |-> TRUE, chars |-> chars]
RedirectArgs == {NotGiven, Given(<<"r">>), Given(<<"http", ":", "/", "/", "other">>)}
StateArgs == {NotGiven, Given(<<>>), Given(<<"s">>), Given(<<"a", "&", "b", "=", "#">>)}
ScopeArgs == {NotGiven, Given(<<>>), Given(<<"scope1">>), Given(<<"all", " ", "x", "?">>)}

\* a || b on a string argument: b when a is undefined or the empty string
OrDefault(arg, dflt) == IF arg.given /\ arg.chars # <<>> THEN arg.chars ELSE dflt

\* querystring.escape: percent-encoding of every character that is not unreserved
EscapeChar(ch) ==
  CASE ch = "&" -> "%26"
    [] ch = "=" -> "%3D"
    [] ch = "#" -> "%23"
    [] ch = "?" -> "%3F"
    [] ch = "/" -> "%2F"
    [] ch = ":" -> "%3A"
    [] ch = " " -> "%20"
    [] OTHER -> ch
escape(chars) == [i \in 1..Len(chars) |-> EscapeChar(chars[i])]

\* querystring.stringify of the pairs of an object, in the order of its keys
RECURSIVE stringify(_)
stringify(pairs) ==
  IF pairs = <<>> THEN <<>>
  ELSE escape(pairs[1][1]) \o <<"=">> \o escape(pairs[1][2])
       \o (IF Len(pairs) > 1 THEN <<"&">> \o stringify(Tail(pairs)) ELSE <<>>)

\* the info object of both URL builders
AuthorizeInfo(state, scope) ==
  << <<<<"client_id">>, <<clientId>>>>,
     <<<<"redirect_uri">>, <<redirectUri>>>>,
     <<<<"response_type">>, <<"code">>>>,
     <<<<"scope">>, OrDefault(scope, <<"users_show">>)>>,
     <<<<"state">>, OrDefault(state, <<>>)>> >>

getAuthorizeURL_UsesRedirect(redirect, state, scope) ==
  <<"https://api.weibo.com/oauth2/authorize", "?">>
  \o stringify([AuthorizeInfo(state, scope) EXCEPT
                  ![2] = <<<<"redirect_uri">>, OrDefault(redirect, <<redirectUri>>)>>])
  \o <<"#", "weibo_redirect">>

\* OAuth.prototype.getAuthorizeURL
getAuthorizeURL(redirect, state, scope) ==
  <<"https://api.weibo.com/oauth2/authorize", "?">>
  \o stringify(AuthorizeInfo(state, scope)) \o <<"#", "weibo_redirect">>

\* OAuth.prototype.getAuthorizeURLForWebsite
getAuthorizeURLForWebsite(redirect, state, scope) ==
  <<"https://open.weibo.cn/oauth2/authorize", "?">>
  \o stringify(AuthorizeInfo(state, scope)) \o <<"#", "weibo_redirect">>

\* a caller builds an authorize URL: the call runs to its end in one turn
Authorize(p, op, redirect, state, scope, url) ==
  /\ calls[p].pc \in {"idle", "done"}
  /\ started < MaxCalls
  /\ calls' = [calls EXCEPT ![p] =
        Return([NewCall([op |-> op,
                         args |-> [redirect |-> redirect, state |-> state, scope |-> scope]])
                EXCEPT !.before = store], url)]
  /\ started' = started + 1
  /\ UNCHANGED <<store, now, issued, lastSave, wire, defaults>>

CallGetAuthorizeURL(p) ==
  \E redirect \in RedirectArgs, state \in StateArgs, scope \in ScopeArgs :
    Authorize(p, "getAuthorizeURL", redirect, state, scope,
              getAuthorizeURL(redirect, state, scope))

CallGetAuthorizeURLForWebsite(p) ==
  \E redirect \in RedirectArgs, state \in StateArgs, scope \in ScopeArgs :
    Authorize(p, "getAuthorizeURLForWebsite", redirect, state, scope,
              getAuthorizeURLForWebsite(redirect, state, scope))

\* the client asked for authorize URLs between code exchanges
NextAuthorize ==
  \/ CallGetAuthorizeURL(Main)
  \/ CallGetAuthorizeURLForWebsite(Main)
  \/ CallGetAccessToken(Main)
  \/ Answer(Main)

SpecAuthorize == Init /\ [][NextAuthorize]_vars

\* ---------------------------------------------------------- request options
\* An object is a function from its keys; {} is <<>>. The header objects of
\* the model are objects, which are truthy.
\* lodash extend(target, source): every key of the source assigned to the target
extend(target, source) ==
  [k \in DOMAIN target \cup DOMAIN source |->
     IF k \in DOMAIN source THEN source[k] ELSE target[k]]

\* the objects given to setOpts
DefaultsArgs ==
  {<<>>, [timeout |-> 1], [headers |-> [a |-> "1"]],
   [timeout |-> 1, headers |-> [a |-> "1", c |-> "3"]]}

\* the per-call options given to request: those of a resource fetch, alone
\* or with a timeout or headers of the call
RequestOpts ==
  LET args == UserRequest([uid |-> "u1"], "at1").args
  IN {args, extend(args, [timeout |-> 2]), extend(args, [headers |-> [b |-> "2"]]),
      extend(args, [headers |-> [a |-> "9"]]), extend(args, [headers |-> <<>>])}

\* OAuth.prototype.request up to urllib.requestThunk: the options handed to
\* the transport, and this.defaults after the call. extend(options,
\* this.defaults) copies the keys of the defaults, not the objects they hold:
\* when the defaults hold a headers object, options.headers is that very
\* object, and extend(options.headers, opts.headers) writes into it.
requestOptions(dflts, opts) ==
  LET copied == extend(<<>>, dflts)
      others == [k \in DOMAIN opts \ {"headers"} |-> opts[k]]
      overwritten == extend(copied, others)
      merges == "headers" \in DOMAIN opts
      shared == "headers" \in DOMAIN copied
      headers == extend(IF shared THEN copied.headers ELSE <<>>, opts.headers)
  IN IF merges
     THEN [options |-> extend(overwritten, [headers |-> headers]),
           defaults |-> IF shared THEN extend(dflts, [headers |-> headers]) ELSE dflts]
     ELSE [options |-> overwritten, defaults |-> dflts]

\* OAuth.prototype.setOpts
SetOpts ==
  /\ \E opts \in DefaultsArgs : defaults' = opts
  /\ UNCHANGED <<store, calls, now, issued, started, lastSave, wire>>

\* a caller hands a resource request to OAuth.prototype.request
CallRequest(p) ==
  \E opts \in RequestOpts :
    LET url == "https://api.weibo.com/2/users/show.json"
        r == requestOptions(defaults, opts)
        c == [NewCall([op |-> "request", args |-> [url |-> url, opts |-> opts]])
              EXCEPT !.before = store]
    IN /\ calls[p].pc \in {"idle", "done"}
       /\ started < MaxCalls
       /\ calls' = [calls EXCEPT ![p] = Issue(c, [url |-> url, args |-> r.options], "user")]
       /\ defaults' = r.defaults
       /\ started' = started + 1
       /\ UNCHANGED <<store, now, issued, lastSave, wire>>

\* the client configured with setOpts between requests
NextOptions ==
  \/ SetOpts
  \/ CallRequest(Main)
  \/ Answer(Main)

SpecOptions == Init /\ [][NextOptions]_vars

\* ---------------------------------------------------------- concurrent use
\* Two callers use the one client at the same time. The provider answers a
\* request when it serves it, and the answer reaches the suspended call
\* later: answers to different calls may arrive in another order than the
\* provider gave them.

\* the stored token of a user whose getAccessToken call was granted at time 0
Authorized(uid, e) ==
  processToken(IdleCall, EmptyStore,
               [access_token |-> "at0_" \o uid, expires_in |-> e, uid |-> uid,
                refresh_token |-> RefreshOf(uid)], 0).call.token

\* both users have authorized; no call is running, and the provider's record
\* of minted tokens starts here
InitConcurrent ==
  /\ \E e1 \in ExpiresIn, e2 \in ExpiresIn :
       store = [EmptyStore EXCEPT !["u1"] = Authorized("u1", e1),
                                  !["u2"] = Authorized("u2", e2)]
  /\ lastSave = store
  /\ calls = [p \in Procs |-> IdleCall]
  /\ now = 0
  /\ issued = <<>>
  /\ started = 0
  /\ wire = [p \in Procs |-> Absent]
  /\ defaults = <<>>

\* the provider (or the failing transport) answers the request of a call
Serve(p) ==
  /\ calls[p].pc \in {"mint", "refresh", "info", "user"}
  /\ wire[p] = Absent
  /\ \E resp \in Answers(Last(calls[p].reqs), issued) :
       /\ wire' = [wire EXCEPT ![p] = resp]
       /\ issued' = IssuedAfter(Last(calls[p].reqs), issued, resp)
  /\ UNCHANGED <<store, calls, now, started, lastSave, defaults>>

\* the answer arrives and the call runs on to its next request or its end
Deliver(p) ==
  /\ wire[p] # Absent
  /\ LET r == Resume(calls[p], store, wire[p], now)
     IN /\ calls' = [calls EXCEPT ![p] = r.call]
        /\ store' = r.store
        /\ lastSave' = Recorded(lastSave, SubSeq(r.call.saves, Len(calls[p].saves) + 1,
                                                Len(r.call.saves)))
  /\ wire' = [wire EXCEPT ![p] = Absent]
  /\ UNCHANGED <<now, issued, started, defaults>>

\* each caller makes one getUser call, at any point of the other's call; the
\* calls overlap within one millisecond of the clock
NextConcurrent ==
  \/ \E p \in Procs : calls[p].pc = "idle" /\ CallGetUser(p)
  \/ \E p \in Procs : Serve(p)
  \/ \E p \in Procs : Deliver(p)

SpecConcurrent == InitConcurrent /\ [][NextConcurrent]_vars

\* ------------------------------------------------------------------- claims
IsTokenRequest(req) == req.url = "https://api.weibo.com/oauth2/access_token"
IsRefreshRequest(req) == IsTokenRequest(req) /\ req.args.data.grant_type = "refresh_token"
IsUserRequest(req) == req.url = "https://api.weibo.com/2/users/show.json"
IsErrorBody(resp) == resp.kind = "body" /\ "error" \in DOMAIN resp.data
IsSuccess(resp) == resp.kind = "body" /\ "error" \notin DOMAIN resp.data
\* the answered token requests of a call that the provider granted
Granted(c) == {j \in 1..Len(c.resps) : IsTokenRequest(c.reqs[j]) /\ IsSuccess(c.resps[j])}

\* C1: every validity test made by getUser answered true exactly when the
\* token's access_token was non-empty and the time of the test was strictly
\* before create_at + expires_in*1000; in particular true one millisecond
\* before that instant, false at it and one millisecond after it, and false
\* whenever access_token is empty.
C1_IsValidContract ==
  \A p \in Procs : \A i \in 1..Len(calls[p].checks) :
    LET k == calls[p].checks[i]
        nonEmpty == k.data.access_token # ""
        expiry == k.data.create_at + k.data.expires_in * 1000
    IN /\ k.valid <=> (nonEmpty /\ k.at < expiry)
       /\ (nonEmpty /\ k.at = expiry - 1) => k.valid
       /\ (k.at = expiry \/ k.at = expiry + 1) => ~k.valid
       /\ ~nonEmpty => ~k.valid

C1_Witness ==
  \E p \in Procs : \E i \in 1..Len(calls[p].checks) :
    LET k == calls[p].checks[i]
    IN /\ k.data.access_token # ""
       /\ k.data.expires_in > 0
       /\ k.at = k.data.create_at + k.data.expires_in * 1000 - 1
       /\ k.valid

\* C2: a getUser call whose load found no token has ended with
\* NoOAuthTokenError, and has issued no request and made no save.
C2_NoTokenHardStop ==
  \A p \in Procs :
    LET c == calls[p]
    IN (c.op = "getUser" /\ Len(c.loads) > 0 /\ c.loads[1].data = Absent) =>
         /\ c.pc = "done"
         /\ c.result.status = "threw"
         /\ c.result.error.name = "NoOAuthTokenError"
         /\ c.reqs = <<>>
         /\ c.saves = <<>>

C2_Witness ==
  \E p \in Procs :
    /\ calls[p].op = "getUser"
    /\ calls[p].loads = <<[uid |-> "u1", data |-> Absent]>>
    /\ calls[p].pc = "done"
    /\ calls[p].result.status = "threw"

\* C3: a getUser call that found its stored token invalid has first issued a
\* refresh request carrying the stored refresh_token; no other request is
\* issued before that one is answered; once the provider has granted it the
\* call issues the resource request with the access_token of the granted
\* token (not the stored one), and when that request is answered with a
\* payload the call returns the payload.
C3_RefreshThenFetch ==
  \A p \in Procs :
    LET c == calls[p]
    IN (c.op = "getUser" /\ Len(c.checks) > 0 /\ ~c.checks[1].valid) =>
         /\ Len(c.reqs) >= 1
         /\ IsRefreshRequest(c.reqs[1])
         /\ c.reqs[1].args.data.refresh_token = Get(c.checks[1].data, "refresh_token")
         /\ Len(c.resps) = 0 => (Len(c.reqs) = 1 /\ c.pc = "refresh")
         /\ (Len(c.resps) >= 1 /\ IsSuccess(c.resps[1])) =>
              /\ Len(c.reqs) = 2
              /\ IsUserRequest(c.reqs[2])
              /\ c.reqs[2].args.data.uid = c.loads[1].uid
              /\ c.reqs[2].args.data.access_token = c.resps[1].data.access_token
              /\ c.resps[1].data.access_token # "" =>
                   c.reqs[2].args.data.access_token # c.checks[1].data.access_token
              /\ Len(c.resps) = 1 => c.pc = "user"
              /\ (Len(c.resps) = 2 /\ IsSuccess(c.resps[2])) =>
                   /\ c.pc = "done"
                   /\ c.result.status = "returned"
                   /\ c.result.value = c.resps[2].data

C3_Witness ==
  \E p \in Procs :
    LET c == calls[p]
    IN /\ c.op = "getUser"
       /\ Len(c.checks) > 0 /\ ~c.checks[1].valid
       /\ c.checks[1].data.access_token # ""
       /\ Len(c.resps) = 2
       /\ c.pc = "done"
       /\ c.result.status = "returned"

\* C4: a getUser call that found its stored token valid makes no save and
\* issues exactly one request, the resource fetch, carrying the stored
\* access_token and not the access_token of its options argument; the store
\* still holds for the uid the token the call loaded.
C4_ValidTokenFetchOnly ==
  \A p \in Procs :
    LET c == calls[p]
    IN (c.op = "getUser" /\ Len(c.checks) > 0 /\ c.checks[1].valid) =>
         /\ c.saves = <<>>
         /\ Len(c.reqs) = 1
         /\ IsUserRequest(c.reqs[1])
         /\ c.reqs[1].args.data.access_token = c.loads[1].data.access_token
         /\ c.reqs[1].args.data.uid = c.loads[1].uid
         /\ getToken(store, c.loads[1].uid) = c.loads[1].data

C4_Witness ==
  \E p \in Procs :
    LET c == calls[p]
    IN /\ c.op = "getUser"
       /\ Len(c.checks) > 0 /\ c.checks[1].valid
       /\ Get(c.args.options, "access_token") = "at_opt"
       /\ c.pc = "done"
       /\ c.result.status = "returned"

\* C5: in every operation, a request answered with a body that has an error
\* field ends the call with WeiboAPIError carrying the body's error_code as
\* code and its error_description as message, under every HTTP status; the
\* call issues nothing after it, and the saves of the call are only those of
\* its granted token requests, so a refused mint or refresh stamps and saves
\* nothing.
C5_ProviderErrorRaised ==
  \A p \in Procs :
    LET c == calls[p]
    IN \A i \in 1..Len(c.resps) :
         IsErrorBody(c.resps[i]) =>
           /\ i = Len(c.resps)
           /\ Len(c.reqs) = i
           /\ c.pc = "done"
           /\ c.result.status = "threw"
           /\ c.result.error.name = "WeiboAPIError"
           /\ c.result.error.code = c.resps[i].data.error_code
           /\ c.result.error.message = c.resps[i].data.error_description
           /\ Len(c.saves) = Cardinality(Granted(c))
           /\ c.token # Absent => (Len(c.saves) > 0 /\ c.token = Last(c.saves).token)

C5_Witness ==
  \E p \in Procs :
    LET c == calls[p]
    IN /\ c.op = "getUser"
       /\ Len(c.resps) = 1
       /\ IsRefreshRequest(c.reqs[1])
       /\ IsErrorBody(c.resps[1])
       /\ c.resps[1].status = 200
       /\ c.result.status = "threw"

\* C6: for every key, load returns the token of the latest save for that key,
\* and absent when no save was ever made for it.
C6_LoadReturnsLastSave ==
  \A k \in StoreKeys : getToken(store, k) = lastSave[k]

C6_Witness ==
  \E p \in Procs :
    LET c == calls[p]
    IN /\ Len(c.saves) = 2
       /\ c.saves[1].uid = "u1" /\ c.saves[2].uid = "u1"
       /\ c.saves[1].token # c.saves[2].token
       /\ getToken(store, "u1") = c.saves[2].token
       /\ getToken(store, "u2") = Absent

\* C7: the turn in which getAccessToken returns gives back the provider's
\* token stamped with the current time as create_at, after one save of that
\* token under the token's own uid, so that the store holds it for that uid;
\* the token is valid when expires_in > 0 and access_token is non-empty.
C7_MintStampedAndSaved ==
  [][\A p \in Procs :
       LET c == calls'[p]
       IN (c.op = "getAccessToken" /\ calls[p].pc = "mint" /\ c.result.status = "returned") =>
            LET token == c.result.value
            IN /\ token = ("create_at" :> now) @@ Last(c.resps).data
               /\ c.saves = <<[uid |-> Get(token, "uid"), token |-> token]>>
               /\ getToken(store', Get(token, "uid")) = token
               /\ (token.expires_in > 0 /\ token.access_token # "") => isValid(token, now)]_vars

C7_Witness ==
  \E p \in Procs :
    LET c == calls[p]
    IN /\ c.op = "getAccessToken"
       /\ c.result.status = "returned"
       /\ c.result.value.expires_in > 0
       /\ c.result.value.access_token # ""
       /\ c.result.value.create_at = now
       /\ now > 0
       /\ getToken(store, c.result.value.uid) = c.result.value

\* C8: every refresh request is a POST to the token endpoint carrying
\* client_id, client_secret, redirect_uri, grant_type=refresh_token and
\* refresh_token, and no code.
C8_RefreshIsPost ==
  \A p \in Procs :
    \A i \in 1..Len(calls[p].reqs) :
      LET req == calls[p].reqs[i]
      IN IsRefreshRequest(req) =>
           /\ Method(req) = "POST"
           /\ DOMAIN req.args.data =
                {"client_id", "client_secret", "redirect_uri", "grant_type", "refresh_token"}

\* C9: in every operation, a request on which the transport failed ends the
\* call with the transport's error renamed 'WeiboAPI' + its name; that
\* request is the last one the call issued, and the saves of the call are
\* only those of its granted token requests.
C9_TransportFailureSurfaces ==
  \A p \in Procs :
    LET c == calls[p]
    IN \A i \in 1..Len(c.resps) :
         c.resps[i].kind = "throw" =>
           /\ i = Len(c.resps)
           /\ Len(c.reqs) = i
           /\ c.pc = "done"
           /\ c.result.status = "threw"
           /\ c.result.error.name = "WeiboAPI" \o c.resps[i].name
           /\ Len(c.saves) = Cardinality(Granted(c))

C9_Witness ==
  \E p \in Procs :
    LET c == calls[p]
    IN /\ c.op = "getUserByCode"
       /\ Len(c.resps) = 2
       /\ c.resps[2].kind = "throw"
       /\ c.result.status = "threw"
       /\ Len(c.saves) = 1

\* C10: a getUser2 call makes no load, no validity test and no save and
\* issues exactly one request, the resource fetch carrying the uid and the
\* access token it was given; no step of it changes the store.
C10_GetUser2PassThrough ==
  [][\A p \in Procs :
       LET c == calls'[p]
       IN c.op = "getUser2" =>
            /\ c.loads = <<>>
            /\ c.checks = <<>>
            /\ c.saves = <<>>
            /\ Len(c.reqs) = 1
            /\ IsUserRequest(c.reqs[1])
            /\ c.reqs[1].args.data.access_token = c.args.accessToken
            /\ c.reqs[1].args.data.uid = c.args.uid
            /\ store' = store]_vars

C10_Witness ==
  \E p \in Procs :
    LET c == calls[p]
    IN /\ c.op = "getUser2"
       /\ c.args.accessToken \notin {TokenName(n) : n \in 1..Len(issued)}
       /\ store["u1"] # Absent
       /\ c.result.status = "returned"

IsInfoRequest(req) == req.url = "https://api.weibo.com/oauth2/get_token_info"

\* C11: a getUserByAccessToken call sends the supplied token in its
\* introspection request only as such; once introspection has answered it
\* loads the token stored for the introspected uid, fails with
\* NoOAuthTokenError when there is none, and otherwise fetches the resource
\* with the stored access_token when that token is valid and with the
\* refreshed one after a granted refresh, whatever token was supplied.
C11_SuppliedTokenDiscarded ==
  \A p \in Procs :
    LET c == calls[p]
    IN c.op = "getUserByAccessToken" =>
         /\ IsInfoRequest(c.reqs[1])
         /\ c.reqs[1].args.data.access_token = c.args.accessToken
         /\ (Len(c.resps) >= 1 /\ IsSuccess(c.resps[1])) =>
              /\ c.loads = <<[uid |-> c.resps[1].data.uid,
                              data |-> getToken(c.before, c.resps[1].data.uid)]>>
              /\ c.loads[1].data = Absent =>
                   /\ c.pc = "done"
                   /\ c.result.status = "threw"
                   /\ c.result.error.name = "NoOAuthTokenError"
                   /\ Len(c.reqs) = 1
              /\ c.loads[1].data # Absent =>
                   /\ Len(c.reqs) >= 2
                   /\ IF c.checks[1].valid
                      THEN /\ IsUserRequest(c.reqs[2])
                           /\ c.reqs[2].args.data.access_token = c.loads[1].data.access_token
                      ELSE /\ IsRefreshRequest(c.reqs[2])
                           /\ (Len(c.resps) >= 2 /\ IsSuccess(c.resps[2])) =>
                                /\ IsUserRequest(c.reqs[3])
                                /\ c.reqs[3].args.data.access_token =
                                     c.resps[2].data.access_token

C11_Witness ==
  \E p \in Procs :
    LET c == calls[p]
    IN /\ c.op = "getUserByAccessToken"
       /\ Len(c.reqs) = 2
       /\ IsUserRequest(c.reqs[2])
       /\ c.reqs[2].args.data.access_token # c.args.accessToken
       /\ c.result.status = "returned"

\* what C12 says of a getUserByCode call whose mint was granted: two
\* requests, the token POST and then the resource GET with the minted
\* access_token, and no refresh
MintThenFetch(c) ==
  /\ Len(c.reqs) = 2
  /\ IsTokenRequest(c.reqs[1])
  /\ c.reqs[1].args.data.grant_type = "authorization_code"
  /\ Method(c.reqs[1]) = "POST"
  /\ IsUserRequest(c.reqs[2])
  /\ Method(c.reqs[2]) = "GET"
  /\ c.reqs[2].args.data.access_token = c.resps[1].data.access_token
  /\ c.reqs[2].args.data.uid = c.resps[1].data.uid

\* C12 as claimed: a getUserByCode call whose mint the provider granted with
\* expires_in > 0 issues exactly the token POST and then the resource GET
\* carrying the minted access_token, and no refresh request.
C12_AsClaimed ==
  \A p \in Procs :
    LET c == calls[p]
    IN (/\ c.op = "getUserByCode"
        /\ Len(c.resps) >= 1
        /\ IsSuccess(c.resps[1])
        /\ c.resps[1].data.expires_in > 0) => MintThenFetch(c)

\* C12: a getUserByCode call whose mint the provider granted with
\* expires_in > 0 and a non-empty access_token issues exactly the token POST
\* and then the resource GET carrying the minted access_token, and no
\* refresh request.
C12_MintThenFetch ==
  \A p \in Procs :
    LET c == calls[p]
    IN (/\ c.op = "getUserByCode"
        /\ Len(c.resps) >= 1
        /\ IsSuccess(c.resps[1])
        /\ c.resps[1].data.expires_in > 0
        /\ c.resps[1].data.access_token # "") => MintThenFetch(c)

C12_Witness ==
  \E p \in Procs :
    LET c == calls[p]
    IN /\ c.op = "getUserByCode"
       /\ Len(c.resps) = 2
       /\ IsSuccess(c.resps[1])
       /\ c.resps[1].data.expires_in > 0
       /\ c.resps[1].data.access_token # ""
       /\ now > 0
       /\ c.result.status = "returned"

\* reading a URL back: the pieces of a sequence between the occurrences of a
\* delimiter, and the character an escape stands for
RECURSIVE Split(_, _)
Split(seq, d) ==
  IF seq = <<>> THEN << <<>> >>
  ELSE LET rest == Split(Tail(seq), d)
       IN IF Head(seq) = d THEN << <<>> >> \o rest
          ELSE << <<Head(seq)>> \o Head(rest) >> \o Tail(rest)

UnescapeChar(ch) ==
  CASE ch = "%26" -> "&"
    [] ch = "%3D" -> "="
    [] ch = "%23" -> "#"
    [] ch = "%3F" -> "?"
    [] ch = "%2F" -> "/"
    [] ch = "%3A" -> ":"
    [] ch = "%20" -> " "
    [] OTHER -> ch
Unescape(chars) == [i \in 1..Len(chars) |-> UnescapeChar(chars[i])]

\* the query of a URL as the sequence of its <<key, value>> pairs, unescaped
ParsedQuery(url) ==
  LET query == Split(Split(url, "#")[1], "?")[2]
      fields == Split(query, "&")
  IN [i \in 1..Len(fields) |->
        LET kv == Split(fields[i], "=")
        IN IF Len(kv) = 2 THEN <<Unescape(kv[1]), Unescape(kv[2])>> ELSE <<"malformed">>]

IsAuthorizeCall(c) == c.op \in {"getAuthorizeURL", "getAuthorizeURLForWebsite"}

C14_AsClaimed ==
  \A p \in Procs :
    LET c == calls[p]
    IN (c.pc = "done" /\ c.result.status = "threw") => store = c.before

\* C14: a call that has ended has returned or thrown, with every request it
\* issued answered, and has returned only when all its answers were
\* successes; a call that has failed has changed the store by exactly the
\* saves of its own granted token requests, one stamped token per grant, in
\* order - so it has left the store untouched when no mint or refresh of it
\* was granted, and a getUser call whose resource fetch failed after a
\* granted refresh has left the refreshed token stored.
C14_FailureKeepsGrantedSaves ==
  \A p \in Procs :
    LET c == calls[p]
    IN c.pc = "done" =>
         /\ c.result.status \in {"returned", "threw"}
         /\ Len(c.reqs) = Len(c.resps)
         /\ c.result.status = "returned" => \A i \in 1..Len(c.resps) : IsSuccess(c.resps[i])
         /\ c.result.status = "threw" =>
              /\ store = Recorded(c.before, c.saves)
              /\ Len(c.saves) = Cardinality(Granted(c))
              /\ \A n \in 1..Len(c.saves) :
                   \E j \in Granted(c) :
                     /\ Cardinality({m \in Granted(c) : m <= j}) = n
                     /\ c.saves[n].uid = Get(c.resps[j].data, "uid")
                     /\ \A f \in DOMAIN c.resps[j].data :
                          c.saves[n].token[f] = c.resps[j].data[f]
              /\ Granted(c) = {} => store = c.before

C14_Witness ==
  \E p \in Procs :
    LET c == calls[p]
    IN /\ c.op = "getUser"
       /\ c.pc = "done"
       /\ c.result.status = "threw"
       /\ Len(c.resps) = 2
       /\ Len(c.saves) = 1
       /\ c.saves[1].uid = c.loads[1].uid
       /\ getToken(store, c.loads[1].uid) = c.saves[1].token
       /\ getToken(store, c.loads[1].uid) # getToken(c.before, c.loads[1].uid)

\* C15: once a getUser call that took the refresh path has returned, the
\* refreshed token has been saved exactly once, under the uid of the call,
\* and the store holds it for that uid - so that a getUser for the uid that
\* follows while the refreshed token is valid finds a valid token, issues no
\* refresh and fetches with the refreshed access_token.
C15_RefreshedTokenStored ==
  \A p \in Procs :
    LET c == calls[p]
        uid == c.loads[1].uid
    IN (/\ c.op = "getUser"
        /\ c.result.status = "returned"
        /\ Len(c.checks) > 0
        /\ ~c.checks[1].valid) =>
         /\ Len(c.saves) = 1
         /\ c.saves[1].token = c.token
         /\ c.saves[1].uid = uid
         /\ getToken(store, uid) = c.token
         /\ isValid(c.token, now) =>
              /\ isValid(getToken(store, uid), now)
              /\ getToken(store, uid).access_token = c.token.access_token

\* the operations that the specification calls non-composed
Simple == {"getAccessToken", "refreshAccessToken", "getTokenInfo", "getUser2"}
Composed == {"getUserByCode", "getUserByAccessToken"}
Suspended == {"mint", "refresh", "info", "user"}

\* C18 as claimed: a finished call of getAccessToken, refreshAccessToken,
\* getTokenInfo, getUser or getUser2 has made exactly one round trip.
C18_AsClaimed ==
  \A p \in Procs :
    LET c == calls[p]
    IN (c.pc = "done" /\ c.op \in Simple \cup {"getUser"}) =>
         Len(c.reqs) = 1 /\ Len(c.resps) = 1

\* C18: a call has at most one request in flight - each request is issued
\* only after the answer to the one before it - and it is suspended exactly
\* while one is. A finished getAccessToken, refreshAccessToken, getTokenInfo
\* or getUser2 call has made exactly one round trip. A finished getUser call
\* has made none when no token was stored, one resource fetch when the token
\* was valid, and on the refresh path a refresh followed, when granted, by
\* the resource fetch. The composed operations put one mint or introspection
\* in front of such a getUser flow, up to three requests.
C18_RoundTrips ==
  \A p \in Procs :
    LET c == calls[p]
        n == Len(c.reqs)
    IN /\ Len(c.resps) = (IF c.pc \in Suspended THEN n - 1 ELSE n)
       /\ c.pc \in Suspended => n > 0
       /\ c.pc = "done" =>
            /\ c.op \in Simple => n = 1
            /\ c.op = "getUser" =>
                 /\ n \in 0..2
                 /\ n = 0 <=> c.loads[1].data = Absent
                 /\ n = 1 /\ c.checks[1].valid => IsUserRequest(c.reqs[1])
                 /\ n > 0 /\ ~c.checks[1].valid => IsRefreshRequest(c.reqs[1])
                 /\ n = 2 => /\ ~c.checks[1].valid
                             /\ IsSuccess(c.resps[1])
                             /\ IsUserRequest(c.reqs[2])
            /\ c.op \in Composed =>
                 /\ n \in 1..3
                 /\ c.op = "getUserByCode" => IsTokenRequest(c.reqs[1]) /\ ~IsRefreshRequest(c.reqs[1])
                 /\ c.op = "getUserByAccessToken" => IsInfoRequest(c.reqs[1])
                 /\ n > 1 => IsSuccess(c.resps[1])
                 /\ n = 3 => IsRefreshRequest(c.reqs[2]) /\ IsUserRequest(c.reqs[3])

C18_Witness ==
  \E p \in Procs :
    LET c == calls[p]
    IN /\ c.op = "getUser"
       /\ c.pc = "done"
       /\ c.result.status = "returned"
       /\ Len(c.reqs) = 2
       /\ Len(c.resps) = 2
       /\ IsRefreshRequest(c.reqs[1])
       /\ IsUserRequest(c.reqs[2])

\* C20: every token in the default store is the token of the latest save for
\* its key, carries the uid it is stored under, and carries a create_at stamp
\* that is not later than the current time.
C20_StoreEntries ==
  \A k \in StoreKeys :
    store[k] # Absent =>
      /\ store[k] = lastSave[k]
      /\ "uid" \in DOMAIN store[k]
      /\ store[k].uid = k
      /\ "create_at" \in DOMAIN store[k]
      /\ store[k].create_at <= now

\* what the claim says a call sends: the defaults with every key of the
\* call's options written over them, the header entries key by key
Overlay(dflts, opts) ==
  [k \in DOMAIN dflts \cup DOMAIN opts |->
     IF k \notin DOMAIN opts THEN dflts[k]
     ELSE IF k = "headers" /\ k \in DOMAIN dflts
          THEN [h \in DOMAIN dflts[k] \cup DOMAIN opts[k] |->
                  IF h \in DOMAIN opts[k] THEN opts[k][h] ELSE dflts[k][h]]
          ELSE opts[k]]

\* C19: a request call sends the defaults overlaid with its own options and
\* leaves the defaults of the client as they were.
C19_CallKeepsDefaults ==
  [][\A p \in Procs :
       (/\ calls[p].pc \in {"idle", "done"}
        /\ calls'[p].op = "request"
        /\ calls'[p].pc = "user") =>
         /\ Last(calls'[p].reqs).args = Overlay(defaults, calls'[p].args.opts)
         /\ defaults' = defaults]_vars

\* the getUser calls of two callers that are over, for one uid, each with a
\* refresh that was granted and saved
Raced(p, q, uid) ==
  /\ p # q
  /\ \A r \in {p, q} :
       /\ calls[r].op = "getUser"
       /\ calls[r].pc = "done"
       /\ calls[r].loads[1].uid = uid
       /\ Len(calls[r].saves) = 1

\* C16: two getUser calls for one uid are not coordinated. Calls that loaded
\* the same expired token have both issued a refresh request with its
\* refresh_token; and when two such calls have both saved their refreshed
\* token and are over, the stored entry of the uid is the token of the latest
\* save - one of the two tokens, whichever was saved last.
C16_LastSaveWins ==
  \A p \in Procs, q \in Procs, uid \in Uids :
    /\ (/\ p # q
        /\ calls[p].op = "getUser" /\ calls[q].op = "getUser"
        /\ Len(calls[p].checks) > 0 /\ Len(calls[q].checks) > 0
        /\ calls[p].loads[1] = calls[q].loads[1]
        /\ ~calls[p].checks[1].valid) =>
          /\ IsRefreshRequest(calls[p].reqs[1])
          /\ calls[p].reqs[1] = calls[q].reqs[1]
          /\ calls[p].reqs[1].args.data.refresh_token =
               Get(calls[p].loads[1].data, "refresh_token")
    /\ Raced(p, q, uid) =>
          /\ store[uid] = lastSave[uid]
          /\ store[uid] \in {calls[p].saves[1].token, calls[q].saves[1].token}

\* C17: a step of a getUser call leaves the call of the other caller and the
\* store entries of the other uids as they were, and is the step the call
\* takes when it runs alone, with no other entry in the store; the resource
\* request of the call carries the access token that the call loaded for its
\* uid and found valid, or the one that its own refresh was answered with.
Alone(st, uid) == [k \in StoreKeys |-> IF k = uid THEN st[k] ELSE Absent]
Outcome(c) == [c EXCEPT !.before = Absent]

C17_DifferentUidsIndependent ==
  [][\A p \in Procs :
       LET c == calls[p]
           d == calls'[p]
           uid == d.loads[1].uid
           alone == IF c.pc = "idle"
                    THEN [call |-> Start([op |-> d.op, args |-> d.args], Alone(store, uid), now),
                          store |-> Alone(store, uid)]
                    ELSE Resume(c, Alone(store, uid), wire[p], now)
       IN (d # c /\ d.op = "getUser") =>
            /\ \A q \in Procs \ {p} : calls'[q] = calls[q]
            /\ \A k \in Uids \ {uid} : store'[k] = store[k]
            /\ Outcome(d) = Outcome(alone.call)
            /\ store'[uid] = alone.store[uid]
            /\ \A i \in 1..Len(d.reqs) :
                 IsUserRequest(d.reqs[i]) =>
                   /\ d.reqs[i].args.data.uid = uid
                   /\ d.reqs[i].args.data.access_token =
                        IF d.checks[1].valid
                        THEN d.loads[1].data.access_token
                        ELSE Get(d.resps[i - 1].data, "access_token")]_vars

C17_Witness ==
  /\ \A p \in Procs :
       /\ calls[p].pc = "done"
       /\ calls[p].result.status = "returned"
       /\ Len(calls[p].saves) = 1
       /\ calls[p].saves[1].uid = calls[p].loads[1].uid
  /\ calls["p1"].loads[1].uid = "u1"
  /\ calls["p2"].loads[1].uid = "u2"
  /\ store["u1"].access_token = TokenName(2)
  /\ store["u2"].access_token = TokenName(1)
  /\ calls["p1"].reqs[2].args.data.access_token = TokenName(2)
  /\ calls["p2"].reqs[2].args.data.access_token = TokenName(1)
====
